---------------------------- MODULE Spec2Model ----------------------------
(* php-runner (src/main.go): a launcher that loads a "label: path"         *)
(* configuration, resolves the PHP version label for the working directory *)
(* (.php-version marker walk, `php --version` probe, default "8.2", any    *)
(* configured entry), and runs the configured executable, forwarding its   *)
(* exit status.                                                            *)
(*                                                                         *)
(* A Go string is modelled as a sequence of one-character strings, so that *)
(* strings.TrimSpace, strings.SplitN and strings.HasPrefix are computed,   *)
(* not assumed.                                                            *)
EXTENDS Integers, Sequences, FiniteSets, TLC

VARIABLES
    pc,         \* position of main: "load", "setup", "exec", "exit"
    lines,      \* the configuration file, as bufio.Scanner yields its lines
    existing,   \* the paths for which os.Stat does not report "not exist"
    config,     \* the Config map built by loadConfig
    loadErr,    \* the error loadConfig returned
    loadWarn,   \* line numbers for which loadConfig printed a warning
    fs,         \* directory -> the .php-version file in it
    fs0,        \* fs as it was when getPhpVersion was called
    ambient,    \* what getCurrentPhpVersion returns in this environment
    written,    \* the directory the user last wrote a marker file in
    cwd,        \* os.Getwd()
    version,    \* the label getPhpVersion returned
    marker,     \* what findPhpVersionFile(cwd) returned inside getPhpVersion
    walk,       \* the directories findPhpVersionFile(cwd) read, in order
    branch,     \* the branch of getPhpVersion that returned
    warned,     \* createPhpVersionFile printed "Warning: Could not create"
    phpPath,    \* config[version]
    run,        \* the outcome of cmd.Run()
    exitStatus, \* the exit status of the launcher process
    diag        \* the diagnostic main printed before exiting

vars == <<pc, lines, existing, config, loadErr, loadWarn, fs, fs0, ambient,
          written, cwd, version, marker, walk, branch, warned, phpPath, run,
          exitStatus, diag>>

-----------------------------------------------------------------------------
(* Bounds *)

MaxLines == 2
MaxDepth == 2

-----------------------------------------------------------------------------
(* Strings *)

\* the white space strings.TrimSpace removes (the ASCII part of it)
WhiteSpace == {" ", "\t", "\n", "\r"}

RECURSIVE TrimLeft(_)
TrimLeft(s) ==
    IF s = <<>> THEN s
    ELSE IF Head(s) \in WhiteSpace THEN TrimLeft(Tail(s)) ELSE s

RECURSIVE TrimRight(_)
TrimRight(s) ==
    IF s = <<>> THEN s
    ELSE IF s[Len(s)] \in WhiteSpace THEN TrimRight(SubSeq(s, 1, Len(s) - 1))
    ELSE s

\* TrimSpace that forgets the trailing white space
TrimLeftOnly(s) == TrimLeft(s)

TrimSpace(s) == TrimRight(TrimLeft(s))

HasPrefix(s, prefix) ==
    /\ Len(s) >= Len(prefix)
    /\ SubSeq(s, 1, Len(prefix)) = prefix

\* strings.SplitN(s, sep, 2) for a one-character sep: the text before the
\* first sep and the text after it, or s alone when it holds no sep
RECURSIVE IndexFrom(_, _, _)
IndexFrom(s, sep, i) ==
    IF i > Len(s) THEN 0
    ELSE IF s[i] = sep THEN i ELSE IndexFrom(s, sep, i + 1)

SplitN2(s, sep) ==
    LET i == IndexFrom(s, sep, 1)
    IN  IF i = 0 THEN <<s>>
        ELSE <<SubSeq(s, 1, i - 1), SubSeq(s, i + 1, Len(s))>>

-----------------------------------------------------------------------------
(* Constants of the program *)

defaultVersion == <<"8", ".", "2">>

V74 == <<"7", ".", "4">>

-----------------------------------------------------------------------------
(* Config and loadConfig *)

EmptyConfig == [k \in {} |-> <<>>]

\* a lookup that does not tell a missing key from a present one
LookupNoCheck(cfg, k) == IF k \in DOMAIN cfg THEN cfg[k] ELSE k

\* config[k] of a Go map[string]string: "" for a missing key
Lookup(cfg, k) == IF k \in DOMAIN cfg THEN cfg[k] ELSE <<>>

Store(cfg, k, v) ==
    [x \in DOMAIN cfg \cup {k} |-> IF x = k THEN v ELSE cfg[x]]

NoErr == [kind |-> "none", line |-> 0]

\* os.IsNotExist(err) for the err of os.Stat(path)
StatIsNotExist(path, ex) == path \notin ex

\* the scanning loop of loadConfig, lineNumber lines already read
RECURSIVE ScanLines(_, _, _, _, _)
ScanLines(ls, n, cfg, warns, ex) ==
    IF n >= Len(ls) THEN [config |-> cfg, err |-> NoErr, warnings |-> warns]
    ELSE
        LET lineNumber == n + 1
            line == TrimSpace(ls[lineNumber])
        IN  IF line = <<>> \/ HasPrefix(line, <<"#">>)
            THEN ScanLines(ls, lineNumber, cfg, warns, ex)
            ELSE
                LET parts == SplitN2(line, ":")
                IN  IF Len(parts) # 2
                    THEN [config |-> EmptyConfig,
                          err |-> [kind |-> "invalid format", line |-> lineNumber],
                          warnings |-> warns]
                    ELSE
                        LET ver == TrimSpace(parts[1])
                            path == TrimSpace(parts[2])
                        IN  IF ver = <<>> \/ path = <<>>
                            THEN [config |-> EmptyConfig,
                                  err |-> [kind |-> "empty version or path",
                                           line |-> lineNumber],
                                  warnings |-> warns]
                            ELSE IF StatIsNotExist(path, ex)
                            THEN ScanLines(ls, lineNumber, cfg,
                                           warns \cup {lineNumber}, ex)
                            ELSE ScanLines(ls, lineNumber, Store(cfg, ver, path),
                                           warns, ex)

\* loadConfig reporting 0-based line numbers
loadConfigOffByOne(ls, ex) ==
    LET r == ScanLines(ls, 0, EmptyConfig, {}, ex)
    IN  IF r.err # NoErr
        THEN [r EXCEPT !.err.line = r.err.line - 1]
        ELSE IF DOMAIN r.config = {}
        THEN [config |-> EmptyConfig,
              err |-> [kind |-> "no valid PHP versions", line |-> 0],
              warnings |-> r.warnings]
        ELSE r

loadConfig(ls, ex) ==
    LET r == ScanLines(ls, 0, EmptyConfig, {}, ex)
    IN  IF r.err # NoErr THEN r
        ELSE IF DOMAIN r.config = {}
        THEN [config |-> EmptyConfig,
              err |-> [kind |-> "no valid PHP versions", line |-> 0],
              warnings |-> r.warnings]
        ELSE r

-----------------------------------------------------------------------------
(* Inputs of loadConfig: configuration lines and paths *)

PathP == <<"/", "p">>
PathQ == <<"/", "q">>
PathWin == <<"C", ":", "/", "p">>

SamplePaths == {PathP, PathQ, PathWin}

SampleLines ==
    { <<>>,                                              \* blank
      <<" ", "\t">>,                                     \* white space only
      <<"#", "8", ".", "2", ":", "/", "p">>,             \* comment
      <<" ", "#">>,                                      \* indented comment
      <<"8", ".", "2", ":", "/", "p">>,                  \* 8.2:/p
      <<" ", "7", ".", "4", " ", ":", "\t", "/", "q", " ">>,
      <<"5", ".", "6", ":", " ", "C", ":", "/", "p">>,   \* 5.6: C:/p
      <<"8", ".", "2", ":", "/", "q">>,                  \* 8.2:/q
      <<"8", ".", "2">>,                                 \* no separator
      <<" ", ":", "/", "p">>,                            \* no label
      <<"7", ".", "4", ":", " ">> }                      \* no path

ConfigFiles == UNION {[1..n -> SampleLines] : n \in 0..MaxLines}

\* the Config values a successful loadConfig can return on these inputs
LoadableConfigs ==
    { loadConfig(f, ex).config :
        f \in {g \in ConfigFiles : \E ex \in SUBSET SamplePaths :
                                       loadConfig(g, ex).err = NoErr},
        ex \in SUBSET SamplePaths } \ {EmptyConfig}

-----------------------------------------------------------------------------
(* Directories and marker files *)

DirNames == {"a"}

\* a directory is its path from the root: <<>> is "/", <<"a", "a">> is "/a/a"
Dirs == UNION {[1..n -> DirNames] : n \in 0..MaxDepth}

\* filepath.Dir: the parent, and the root for the root
FilepathDir(dir) ==
    IF dir = <<>> THEN dir ELSE SubSeq(dir, 1, Len(dir) - 1)

NoFile == [exists |-> FALSE, content |-> <<>>]
File(content) == [exists |-> TRUE, content |-> content]

\* os.ReadFile(filepath.Join(dir, versionFile))
ReadFile(files, dir) ==
    [err |-> ~files[dir].exists, content |-> files[dir].content]

\* the loop stopping at the first marker file, even an empty one
RECURSIVE FindLoopStopAtEmpty(_, _, _)
FindLoopStopAtEmpty(files, dir, seen) ==
    LET r == ReadFile(files, dir)
        ver == TrimSpace(r.content)
        parent == FilepathDir(dir)
    IN  IF ~r.err
        THEN [version |-> ver, visited |-> Append(seen, dir)]
        ELSE IF parent = dir
        THEN [version |-> <<>>, visited |-> Append(seen, dir)]
        ELSE FindLoopStopAtEmpty(files, parent, Append(seen, dir))

\* the loop of findPhpVersionFile; seen are the directories read so far
RECURSIVE FindLoop(_, _, _)
FindLoop(files, dir, seen) ==
    LET r == ReadFile(files, dir)
        ver == TrimSpace(r.content)
        parent == FilepathDir(dir)
    IN  IF ~r.err /\ ver # <<>>
        THEN [version |-> ver, visited |-> Append(seen, dir)]
        ELSE IF parent = dir
        THEN [version |-> <<>>, visited |-> Append(seen, dir)]
        ELSE FindLoop(files, parent, Append(seen, dir))

\* findPhpVersionFile that reads startDir only
FindOnlyStartDir(files, startDir) ==
    LET r == ReadFile(files, startDir)
    IN  [version |-> IF r.err THEN <<>> ELSE TrimSpace(r.content),
         visited |-> <<startDir>>]

findPhpVersionFile(files, startDir) == FindLoop(files, startDir, <<>>)

\* os.WriteFile(name, data, 0644): open with O_CREATE|O_TRUNC, write, close.
\* how tells where it fails: opening (nothing changes), writing (the file is
\* left holding the how.n bytes written before the error), closing (all the
\* data is in the file), or nowhere.
WriteFates ==
    { [kind |-> "ok", n |-> 0], [kind |-> "open_failed", n |-> 0],
      [kind |-> "close_failed", n |-> 0] }
    \cup {[kind |-> "write_failed", n |-> i] : i \in 0..Len(defaultVersion)}

WriteFile(files, dir, data, how) ==
    CASE how.kind = "open_failed" ->
            [fs |-> files, err |-> TRUE]
      [] how.kind = "write_failed" ->
            LET n == IF how.n < Len(data) THEN how.n ELSE Len(data) - 1
            IN  [fs |-> [files EXCEPT ![dir] = File(SubSeq(data, 1, n))],
                 err |-> TRUE]
      [] how.kind = "close_failed" ->
            [fs |-> [files EXCEPT ![dir] = File(data)], err |-> TRUE]
      [] OTHER ->
            [fs |-> [files EXCEPT ![dir] = File(data)], err |-> FALSE]

\* createPhpVersionFile writing the label without its newline
CreateWithoutNewline(files, dir, ver, how) ==
    LET w == WriteFile(files, dir, ver, how)
    IN  [fs |-> w.fs, warned |-> w.err]

createPhpVersionFile(files, dir, ver, how) ==
    LET w == WriteFile(files, dir, ver \o <<"\n">>, how)
    IN  [fs |-> w.fs, warned |-> w.err]

\* getPhpVersion giving up when the marker file cannot be written
getPhpVersionAbortOnWriteError(dir, cfg, files, amb, pick, how) ==
    LET found == findPhpVersionFile(files, dir)
        ret(v, b, c) ==
            [version |-> IF c.warned THEN <<>> ELSE v, branch |-> b,
             fs |-> c.fs, warned |-> c.warned, exited |-> c.warned,
             marker |-> found.version, visited |-> found.visited]
    IN  IF found.version # <<>> /\ Lookup(cfg, found.version) # <<>>
        THEN ret(found.version, "marker", [fs |-> files, warned |-> FALSE])
        ELSE IF amb # <<>> /\ Lookup(cfg, amb) # <<>>
        THEN ret(amb, "ambient", createPhpVersionFile(files, dir, amb, how))
        ELSE IF Lookup(cfg, defaultVersion) # <<>>
        THEN ret(defaultVersion, "default",
                 createPhpVersionFile(files, dir, defaultVersion, how))
        ELSE IF DOMAIN cfg # {}
        THEN ret(pick, "any", createPhpVersionFile(files, dir, pick, how))
        ELSE [version |-> <<>>, branch |-> "none", fs |-> files,
              warned |-> FALSE, exited |-> TRUE, marker |-> found.version,
              visited |-> found.visited]

\* getPhpVersion with the ambient probe consulted before the marker file
getPhpVersionAmbientFirst(dir, cfg, files, amb, pick, how) ==
    LET found == findPhpVersionFile(files, dir)
        ret(v, b, c) ==
            [version |-> v, branch |-> b, fs |-> c.fs, warned |-> c.warned,
             exited |-> FALSE, marker |-> found.version,
             visited |-> found.visited]
    IN  IF amb # <<>> /\ Lookup(cfg, amb) # <<>>
        THEN ret(amb, "ambient", createPhpVersionFile(files, dir, amb, how))
        ELSE IF found.version # <<>> /\ Lookup(cfg, found.version) # <<>>
        THEN ret(found.version, "marker", [fs |-> files, warned |-> FALSE])
        ELSE IF Lookup(cfg, defaultVersion) # <<>>
        THEN ret(defaultVersion, "default",
                 createPhpVersionFile(files, dir, defaultVersion, how))
        ELSE IF DOMAIN cfg # {}
        THEN ret(pick, "any", createPhpVersionFile(files, dir, pick, how))
        ELSE [version |-> <<>>, branch |-> "none", fs |-> files,
              warned |-> FALSE, exited |-> TRUE, marker |-> found.version,
              visited |-> found.visited]

\* getPhpVersion(cwd, config). amb is what getCurrentPhpVersion returns, pick
\* the key `for ver := range config` yields first, how the fate of the write.
getPhpVersion(dir, cfg, files, amb, pick, how) ==
    LET found == findPhpVersionFile(files, dir)
        ret(v, b, c) ==
            [version |-> v, branch |-> b, fs |-> c.fs, warned |-> c.warned,
             exited |-> FALSE, marker |-> found.version,
             visited |-> found.visited]
    IN  IF found.version # <<>> /\ Lookup(cfg, found.version) # <<>>
        THEN ret(found.version, "marker", [fs |-> files, warned |-> FALSE])
        ELSE IF amb # <<>> /\ Lookup(cfg, amb) # <<>>
        THEN ret(amb, "ambient", createPhpVersionFile(files, dir, amb, how))
        ELSE IF Lookup(cfg, defaultVersion) # <<>>
        THEN ret(defaultVersion, "default",
                 createPhpVersionFile(files, dir, defaultVersion, how))
        ELSE IF DOMAIN cfg # {}
        THEN ret(pick, "any", createPhpVersionFile(files, dir, pick, how))
        ELSE [version |-> <<>>, branch |-> "none", fs |-> files,
              warned |-> FALSE, exited |-> TRUE, marker |-> found.version,
              visited |-> found.visited]

\* the keys a range over cfg can yield first
RangeKeys(cfg) == IF DOMAIN cfg = {} THEN {<<>>} ELSE DOMAIN cfg

-----------------------------------------------------------------------------
(* Inputs of the resolver *)

\* what `php --version` in PATH yields through getCurrentPhpVersion: nothing,
\* or a major.minor label
AmbientVersions == {<<>>, V74}

\* what a user writes into a .php-version file
UserContents ==
    { <<"\n">>,
      <<"8", ".", "2", "\n">>,
      <<" ", "7", ".", "4", "\t", "\n">> }

NotWritten == [done |-> FALSE, dir |-> <<>>]

-----------------------------------------------------------------------------
(* cmd.Run and the exit status *)

\* a syscall.WaitStatus of a child that exited with code c
Exited(c) == c * 256
\* a syscall.WaitStatus of a child killed by signal s
Signaled(s) == s

WaitStatuses ==
    {Exited(c) : c \in 1..255} \cup {Signaled(s) : s \in 1..31}

\* syscall.WaitStatus.ExitStatus(): -1 unless the child exited
ExitStatus(w) == IF w % 128 # 0 THEN -1 ELSE (w \div 256) % 256

\* the status the parent of the launcher sees after os.Exit(code)
OsExit(code) == code % 256

\* cmd.Run(): nil (the child exited with 0), an *exec.ExitError holding the
\* WaitStatus, or another error (the executable could not be started)
RunOutcomes ==
    {[kind |-> "nil", status |-> 0], [kind |-> "start_failed", status |-> 0]}
    \cup {[kind |-> "exit_error", status |-> w] : w \in WaitStatuses}

NoRun == [kind |-> "none", status |-> 0]

-----------------------------------------------------------------------------
(* main *)

\* main, lines 31-35: loadConfig and the exit on its error
MainLoad ==
    /\ pc = "load"
    /\ LET r == loadConfig(lines, existing)
       IN  /\ loadErr' = r.err
           /\ loadWarn' = r.warnings
           /\ config' = r.config
           /\ IF r.err # NoErr
              THEN pc' = "exit" /\ exitStatus' = 1
                   /\ diag' = "Error loading config"
              ELSE pc' = "setup" /\ UNCHANGED <<exitStatus, diag>>
    /\ UNCHANGED <<lines, existing, fs, fs0, ambient, written, cwd, version,
                   marker, walk, branch, warned, phpPath, run>>

\* the user writes a .php-version file in a directory before running
WriteMarker(d, c) ==
    /\ pc = "setup"
    /\ fs' = [fs EXCEPT ![d] = File(c)]
    /\ written' = [done |-> TRUE, dir |-> d]
    /\ UNCHANGED <<pc, lines, existing, config, loadErr, loadWarn, fs0,
                   ambient, cwd, version, marker, walk, branch, warned,
                   phpPath, run, exitStatus, diag>>

\* main, lines 37-52: os.Getwd, getPhpVersion, config[version]
MainResolve ==
    /\ pc = "setup"
    /\ \E d \in Dirs, pick \in RangeKeys(config), how \in WriteFates :
          LET r == getPhpVersion(d, config, fs, ambient, pick, how)
          IN  /\ cwd' = d
              /\ fs0' = fs
              /\ fs' = r.fs
              /\ version' = r.version
              /\ marker' = r.marker
              /\ walk' = r.visited
              /\ branch' = r.branch
              /\ warned' = r.warned
              /\ IF r.exited
                 THEN pc' = "exit" /\ exitStatus' = 1
                      /\ diag' = "No valid PHP version found"
                      /\ phpPath' = <<>>
                 ELSE IF r.version \notin DOMAIN config
                 THEN pc' = "exit" /\ exitStatus' = 1
                      /\ diag' = "PHP version not found in configuration"
                      /\ phpPath' = <<>>
                 ELSE pc' = "exec" /\ phpPath' = config[r.version]
                      /\ UNCHANGED <<exitStatus, diag>>
    /\ UNCHANGED <<lines, existing, config, loadErr, loadWarn, ambient,
                   written, run>>

\* main, lines 54-77: os.Stat(phpPath), cmd.Run and the exit status
MainExec ==
    /\ pc = "exec"
    /\ IF StatIsNotExist(phpPath, existing)
       THEN /\ run' = NoRun
            /\ exitStatus' = OsExit(1)
            /\ diag' = "PHP executable not found"
       ELSE \E o \in RunOutcomes :
            /\ run' = o
            /\ IF o.kind = "nil"
               THEN exitStatus' = 0 /\ diag' = "none"
               ELSE IF o.kind = "exit_error"
               THEN exitStatus' = OsExit(ExitStatus(o.status))
                    /\ diag' = "none"
               ELSE exitStatus' = OsExit(1) /\ diag' = "Error executing PHP"
    /\ pc' = "exit"
    /\ UNCHANGED <<lines, existing, config, loadErr, loadWarn, fs, fs0,
                   ambient, written, cwd, version, marker, walk, branch,
                   warned, phpPath>>

-----------------------------------------------------------------------------
(* Specifications *)

\* loadConfig on every configuration file of at most MaxLines sample lines
InitConfig ==
    /\ pc = "load"
    /\ lines \in ConfigFiles
    /\ existing \in SUBSET SamplePaths
    /\ config = EmptyConfig
    /\ loadErr = NoErr /\ loadWarn = {}
    /\ fs = [d \in Dirs |-> NoFile] /\ fs0 = [d \in Dirs |-> NoFile]
    /\ ambient = <<>> /\ written = NotWritten /\ cwd = <<>>
    /\ version = <<>> /\ marker = <<>> /\ walk = <<>> /\ branch = "none"
    /\ warned = FALSE /\ phpPath = <<>> /\ run = NoRun
    /\ exitStatus = -1 /\ diag = "none"

NextConfig == MainLoad

SpecConfig == InitConfig /\ [][NextConfig]_vars

\* the resolver, after a successful load, on every tree of marker files
Init ==
    /\ pc = "setup"
    /\ lines = <<>>
    /\ config \in LoadableConfigs
    /\ existing = {config[k] : k \in DOMAIN config}
    /\ loadErr = NoErr /\ loadWarn = {}
    /\ fs = [d \in Dirs |-> NoFile] /\ fs0 = [d \in Dirs |-> NoFile]
    /\ ambient \in AmbientVersions
    /\ written = NotWritten /\ cwd = <<>>
    /\ version = <<>> /\ marker = <<>> /\ walk = <<>> /\ branch = "none"
    /\ warned = FALSE /\ phpPath = <<>> /\ run = NoRun
    /\ exitStatus = -1 /\ diag = "none"

Next ==
    \/ \E d \in Dirs, c \in UserContents : WriteMarker(d, c)
    \/ MainResolve

Spec == Init /\ [][Next]_vars

\* the launch of a resolved executable
InitLaunch ==
    /\ pc = "exec"
    /\ lines = <<>>
    /\ existing \in SUBSET SamplePaths
    /\ config \in LoadableConfigs
    /\ version \in DOMAIN config
    /\ phpPath = config[version]
    /\ loadErr = NoErr /\ loadWarn = {}
    /\ fs = [d \in Dirs |-> NoFile] /\ fs0 = [d \in Dirs |-> NoFile]
    /\ ambient = <<>> /\ written = NotWritten /\ cwd = <<>>
    /\ marker = <<>> /\ walk = <<>> /\ branch = "none"
    /\ warned = FALSE /\ run = NoRun
    /\ exitStatus = -1 /\ diag = "none"

NextLaunch == MainExec

SpecLaunch == InitLaunch /\ [][NextLaunch]_vars

-----------------------------------------------------------------------------
(* Vocabulary of the properties, stated without the operators above *)

SetMin(S) == CHOOSE x \in S : \A y \in S : x <= y
SetMax(S) == CHOOSE x \in S : \A y \in S : x >= y

\* s without its leading and trailing white space
Core(s) ==
    LET ink == {i \in 1..Len(s) : s[i] \notin WhiteSpace}
    IN  IF ink = {} THEN <<>> ELSE SubSeq(s, SetMin(ink), SetMax(ink))

IsPrefix(p, s) == Len(p) <= Len(s) /\ \A i \in 1..Len(p) : p[i] = s[i]

\* dir, its parent, ..., the root
Chain(dir) == [i \in 1..(Len(dir) + 1) |-> SubSeq(dir, 1, Len(dir) + 1 - i)]

\* the positions in Chain(dir) whose marker file holds a label
Labelled(files, dir) ==
    {i \in 1..(Len(dir) + 1) :
        /\ files[Chain(dir)[i]].exists
        /\ Core(files[Chain(dir)[i]].content) # <<>>}

\* the label of the marker file nearest to dir, <<>> when there is none
NearestLabel(files, dir) ==
    IF Labelled(files, dir) = {} THEN <<>>
    ELSE Core(files[Chain(dir)[SetMin(Labelled(files, dir))]].content)

Resolved == pc # "setup"

-----------------------------------------------------------------------------
(* C1 *)

\* C1: getPhpVersion returns the label of the first satisfied branch in the
\* order marker file, ambient probe, default "8.2", any configured entry: a
\* marker label that is a key of config is returned whatever the probe reports
\* and whether or not the default is configured; failing that, a configured
\* ambient label is returned in preference to the default; failing that, the
\* configured default is returned in preference to any other entry; failing
\* that, some key of config is returned.
C1_BranchOrder ==
    Resolved =>
        LET m == NearestLabel(fs0, cwd)
        IN  IF m # <<>> /\ m \in DOMAIN config
            THEN version = m /\ branch = "marker"
            ELSE IF ambient # <<>> /\ ambient \in DOMAIN config
            THEN version = ambient /\ branch = "ambient"
            ELSE IF defaultVersion \in DOMAIN config
            THEN version = defaultVersion /\ branch = "default"
            ELSE version \in DOMAIN config /\ branch = "any"

\* a configured marker label wins over a different configured ambient label
\* while the default is configured too
C1_Witness ==
    /\ Resolved
    /\ branch = "marker"
    /\ ambient \in DOMAIN config
    /\ ambient # version
    /\ defaultVersion \in DOMAIN config

-----------------------------------------------------------------------------
(* C2 *)

\* C2: every marker file that existed before getPhpVersion was called, in
\* cwd or in an ancestor, has the same content after it returned.
C2_ExistingMarkersKept ==
    Resolved => \A d \in Dirs : fs0[d].exists => fs[d] = fs0[d]

-----------------------------------------------------------------------------
(* C3 *)

\* the only marker file from dir up to the root is in a proper ancestor
OnlyInAncestor(files, dir) ==
    /\ ~files[dir].exists
    /\ Cardinality({i \in 1..(Len(dir) + 1) : files[Chain(dir)[i]].exists}) = 1

\* C3: when the only marker file from cwd up to the root is in a proper
\* ancestor and its label is a key of config, getPhpVersion returns that
\* label and no marker file is created or changed anywhere.
C3_AncestorMarkerNoWrite ==
    (/\ Resolved
     /\ OnlyInAncestor(fs0, cwd)
     /\ NearestLabel(fs0, cwd) \in DOMAIN config)
    => /\ version = NearestLabel(fs0, cwd)
       /\ fs = fs0
       /\ ~warned

\* the marker is two levels above cwd, with a bare directory in between
C3_Witness ==
    /\ Resolved
    /\ OnlyInAncestor(fs0, cwd)
    /\ NearestLabel(fs0, cwd) \in DOMAIN config
    /\ Len(cwd) >= 2
    /\ fs0[SubSeq(cwd, 1, Len(cwd) - 2)].exists
    /\ version # ambient
    /\ version # defaultVersion

-----------------------------------------------------------------------------
(* C4 *)

\* the user has just written a marker file holding a label in cwd
JustWrote ==
    /\ Resolved
    /\ written.done
    /\ written.dir = cwd
    /\ Core(fs0[cwd].content) # <<>>

\* C4 as claimed: for every label L, writing a marker file holding L in D and
\* then resolving from D returns L and changes no file.
C4_RoundTripAnyLabel ==
    JustWrote => version = Core(fs0[cwd].content) /\ fs = fs0

\* C4 as amended: for every label L that is a key of config, writing a marker
\* file holding L in D and then resolving from D returns L and changes no
\* file.
C4_RoundTripConfigured ==
    (JustWrote /\ Core(fs0[cwd].content) \in DOMAIN config)
    => version = Core(fs0[cwd].content) /\ fs = fs0

\* a label written with surrounding white space, below another marker file,
\* while the default is configured and is not the label written
C4_Witness ==
    /\ JustWrote
    /\ Core(fs0[cwd].content) \in DOMAIN config
    /\ fs0[cwd].content # Core(fs0[cwd].content) \o <<"\n">>
    /\ Len(cwd) >= 1
    /\ fs0[FilepathDir(cwd)].exists
    /\ defaultVersion \in DOMAIN config
    /\ version # defaultVersion

-----------------------------------------------------------------------------
(* C5 *)

\* no marker file from cwd up to the root, and a configured ambient label
NoMarkerAmbient ==
    /\ Resolved
    /\ \A i \in 1..(Len(cwd) + 1) : ~fs0[Chain(cwd)[i]].exists
    /\ ambient # <<>>
    /\ ambient \in DOMAIN config

\* C5 as claimed: with no marker file from D up to the root and an ambient
\* label V that is a key of config, resolving from D returns V and leaves a
\* marker file at D that holds V, so that a lookup from D then yields V.
C5_AmbientPersisted ==
    NoMarkerAmbient
    => /\ version = ambient
       /\ fs[cwd].exists
       /\ Core(fs[cwd].content) = ambient
       /\ findPhpVersionFile(fs, cwd).version = ambient

\* C5 as amended: ... resolving from D returns V; when the write of the
\* marker file succeeds, the marker file at D holds V followed by a newline
\* and a lookup from D then yields V; no other directory's marker changes.
C5_AmbientPersistedIfWritten ==
    NoMarkerAmbient
    => /\ version = ambient
       /\ branch = "ambient"
       /\ ~warned => /\ fs[cwd] = File(ambient \o <<"\n">>)
                     /\ findPhpVersionFile(fs, cwd).version = ambient
       /\ \A d \in Dirs \ {cwd} : fs[d] = fs0[d]

\* the write succeeded below the root while the default is configured too
C5_Witness ==
    /\ NoMarkerAmbient
    /\ ~warned
    /\ Len(cwd) >= 1
    /\ fs[cwd].exists
    /\ defaultVersion \in DOMAIN config
    /\ ambient # defaultVersion

-----------------------------------------------------------------------------
(* C8 *)

\* the number of directories findPhpVersionFile reads from dir
WalkLength(files, dir) ==
    IF Labelled(files, dir) = {} THEN Len(dir) + 1
    ELSE SetMin(Labelled(files, dir))

\* C8: findPhpVersionFile(cwd) returns the trimmed content of the marker file
\* nearest to cwd whose trimmed content is not empty, reading cwd, then each
\* parent in turn, and nothing beyond the directory where it found one; it
\* returns "" after reading the root without a match; a second call on the
\* same tree returns the same, and when getPhpVersion returns its label no
\* file has been changed.
C8_NearestMarker ==
    Resolved =>
        /\ marker = NearestLabel(fs0, cwd)
        /\ walk = SubSeq(Chain(cwd), 1, WalkLength(fs0, cwd))
        /\ marker = <<>> => walk[Len(walk)] = <<>>
        /\ findPhpVersionFile(fs0, cwd) = [version |-> marker, visited |-> walk]
        /\ branch = "marker" => fs = fs0

\* an empty marker in cwd is skipped and the label comes from an ancestor
\* that is not the root
C8_Witness ==
    /\ Resolved
    /\ fs0[cwd].exists
    /\ Core(fs0[cwd].content) = <<>>
    /\ marker # <<>>
    /\ Len(walk) = 2
    /\ Len(cwd) >= 2

-----------------------------------------------------------------------------
(* C9 *)

OkFate == [kind |-> "ok", n |-> 0]

\* C9 as claimed: when the write of the marker file at cwd fails, a warning
\* is printed, no file is changed, and getPhpVersion returns the label it
\* returns when the write succeeds, which main then launches.
C9_FailedWriteChangesNothing ==
    (Resolved /\ warned)
    => /\ fs = fs0
       /\ version = getPhpVersion(cwd, config, fs0, ambient, version,
                                  OkFate).version
       /\ pc = "exec"
       /\ phpPath = config[version]

\* C9 as amended: ... a warning is printed, no marker file other than the
\* one at cwd is changed, the one at cwd is either untouched or left holding
\* a prefix of the label line, and getPhpVersion returns the label it returns
\* when the write succeeds, which main then launches.
C9_FailedWriteKeepsLabel ==
    (Resolved /\ warned)
    => /\ \A d \in Dirs \ {cwd} : fs[d] = fs0[d]
       /\ \/ fs[cwd] = fs0[cwd]
          \/ /\ fs[cwd].exists
             /\ IsPrefix(fs[cwd].content, version \o <<"\n">>)
       /\ branch \in {"ambient", "default", "any"}
       /\ version = getPhpVersion(cwd, config, fs0, ambient, version,
                                  OkFate).version
       /\ pc = "exec"
       /\ phpPath = config[version]

\* the open failed in the last branch, below a marker that is not configured
C9_Witness ==
    /\ Resolved
    /\ warned
    /\ branch = "any"
    /\ fs = fs0
    /\ marker # <<>>
    /\ Len(cwd) >= 1

-----------------------------------------------------------------------------
(* C10 *)

\* C10: the label getPhpVersion returns is a key of the loaded config mapped
\* to a non-empty path, so main never exits with "PHP version not found in
\* configuration" and goes on to launch config[version]; a marker label that
\* is not a key of config is never the label launched.
C10_VersionConfigured ==
    Resolved =>
        /\ version \in DOMAIN config
        /\ config[version] # <<>>
        /\ pc = "exec"
        /\ diag = "none"
        /\ phpPath = config[version]
        /\ marker \notin DOMAIN config => version # marker

\* a marker label that is not configured, and neither ambient nor default is
C10_Witness ==
    /\ Resolved
    /\ marker # <<>>
    /\ marker \notin DOMAIN config
    /\ branch = "any"
    /\ pc = "exec"

-----------------------------------------------------------------------------
(* C6 *)

\* C6: the exit status of the launcher is the child's exit code when the
\* child exits normally, zero or not; it is 1, with a diagnostic printed,
\* when the executable cannot be launched or the child is ended by a signal.
C6_ExitStatus ==
    pc = "exit" =>
        IF run.kind = "nil" THEN exitStatus = 0
        ELSE IF run.kind = "exit_error" /\ \E c \in 1..255 : run.status = Exited(c)
        THEN \E c \in 1..255 : run.status = Exited(c) /\ exitStatus = c
        ELSE exitStatus = 1 /\ diag # "none"

-----------------------------------------------------------------------------
(* C7 *)

\* a line loadConfig ignores: blank, or a comment
Ignored(l) == Core(l) = <<>> \/ Core(l)[1] = "#"

\* the position of the first ":" of s, 0 when it has none
FirstColon(s) ==
    IF \E i \in 1..Len(s) : s[i] = ":"
    THEN SetMin({i \in 1..Len(s) : s[i] = ":"})
    ELSE 0

LabelOf(l) == Core(SubSeq(Core(l), 1, FirstColon(Core(l)) - 1))
PathOf(l) == Core(SubSeq(Core(l), FirstColon(Core(l)) + 1, Len(Core(l))))

\* a line that splits on its first ":" into two non-empty trimmed parts
WellFormed(l) ==
    /\ ~Ignored(l)
    /\ FirstColon(Core(l)) # 0
    /\ LabelOf(l) # <<>>
    /\ PathOf(l) # <<>>

Malformed(l) == ~Ignored(l) /\ ~WellFormed(l)

BadLines == {i \in 1..Len(lines) : Malformed(lines[i])}
KeptLines ==
    {i \in 1..Len(lines) : WellFormed(lines[i]) /\ PathOf(lines[i]) \in existing}
SkippedLines ==
    {i \in 1..Len(lines) : WellFormed(lines[i]) /\ PathOf(lines[i]) \notin existing}

\* C7: a malformed line fails the load with the 1-based number of the first
\* such line, whatever well-formed or skipped lines precede it; otherwise
\* each well-formed line yields an entry for its label iff its path exists
\* (the last such line of a label giving its path), a line whose path is
\* missing is skipped with a warning, and the load fails when no entry is
\* left.
C7_LoadConfig ==
    pc # "load" =>
        IF BadLines # {}
        THEN /\ loadErr.kind \in {"invalid format", "empty version or path"}
             /\ loadErr.line = SetMin(BadLines)
             /\ loadWarn = {i \in SkippedLines : i < SetMin(BadLines)}
             /\ pc = "exit" /\ exitStatus = 1
        ELSE IF KeptLines = {}
        THEN /\ loadErr.kind = "no valid PHP versions"
             /\ loadWarn = SkippedLines
             /\ pc = "exit" /\ exitStatus = 1
        ELSE /\ loadErr = NoErr
             /\ pc = "setup"
             /\ loadWarn = SkippedLines
             /\ DOMAIN config = {LabelOf(lines[i]) : i \in KeptLines}
             /\ \A k \in DOMAIN config :
                    config[k] = PathOf(lines[SetMax(
                        {i \in KeptLines : LabelOf(lines[i]) = k})])

\* a malformed second line after a line skipped for its missing path
C7_Witness ==
    /\ pc = "exit"
    /\ Len(lines) = 2
    /\ loadWarn = {1}
    /\ loadErr.line = 2
    /\ loadErr.kind = "empty version or path"

====
